---- MODULE Spec2Model ----
(***************************************************************************)
(* Feature store: computeVersion (schema validation, sandboxed             *)
(* computation, version creation, value storage) and the feature-vector    *)
(* lookup path with its TTL cache.  Every database statement and every     *)
(* cache call of a request handler is one atomic step; handlers of         *)
(* different requests interleave freely (FastAPI runs the synchronous      *)
(* handlers on a thread pool).                                             *)
(***************************************************************************)
EXTENDS Integers, Sequences, FiniteSets, TLC

VARIABLES
    rawTables,     \* table raw_tables: sequence of rows, id = position
    features,      \* table features: sequence of rows, id = position
    versions,      \* table feature_versions: sequence of rows, id = position
    fvalues,       \* table feature_values: sequence of rows, id = position
    dbClock,       \* the database server's now(), source of computed_at
    pc,            \* per worker: position inside the handler it runs
    req,           \* per worker: the request and the handler's local variables
    outcome,       \* per worker: the kind of response of the finished handler
    response,      \* per worker: the feature vector of a finished lookup
    cache,         \* feature_cache.cache: key -> [features, expires] and, for the
                   \* record, when the vector was stored and when it was read
    now,           \* the cache's timer (time.monotonic), in seconds
    ticks,         \* how often the timer has advanced
    probe,         \* a set under one request shape followed by a get under another
    tcache         \* the TTLCache's own fields, as calls that interleave see them

vars == <<rawTables, features, versions, fvalues, dbClock, pc, req, outcome,
          response, cache, now, ticks, probe, tcache>>

db == <<rawTables, features, versions, fvalues, dbClock>>
handlers == <<pc, req, outcome, response>>
cacheVars == <<cache, now, ticks>>

-----------------------------------------------------------------------------
(* Bounds of the model *)

MaxVersions == 4        \* rows of feature_versions
MaxFeatures == 2        \* rows of features
MaxDbClock == 3         \* readings of the database clock
MaxTicks == 3           \* advances of the cache timer
MaxNames == 2           \* length of a probed list of feature names
MaxCalls == 3           \* calls of the cache's get and set that interleave

Workers == {1, 2, 3}    \* concurrently running request handlers

None == "None"          \* Python's None

-----------------------------------------------------------------------------
(* Generic helpers *)

Range(s) == {s[i] : i \in DOMAIN s}

RECURSIVE SeqSum(_)
SeqSum(s) == IF s = <<>> THEN 0 ELSE Head(s) + SeqSum(Tail(s))

(* sep.join(parts) *)
RECURSIVE join(_, _)
join(sep, parts) ==
    IF parts = <<>> THEN ""
    ELSE IF Len(parts) = 1 THEN parts[1]
    ELSE parts[1] \o sep \o join(sep, Tail(parts))

-----------------------------------------------------------------------------
(* Cell values of a raw record: integers and strings, kept apart by tag *)

Num(n) == [k |-> "num", n |-> n]
Str(s) == [k |-> "str", s |-> s]
IsNum(v) == v.k = "num"

(* Values a computation may put into its series besides scalars: a dict (its
   items in insertion order), a list and a tuple *)
Pair(key, value) == [key |-> key, value |-> value]
Dict(items) == [k |-> "dict", items |-> items]
List(items) == [k |-> "list", items |-> items]
Tuple(items) == [k |-> "tuple", items |-> items]

(* A raw record is a function from column names to cell values.  A request's
   data is a sequence of raw records. *)
Rec2(c1, v1, c2, v2) == (c1 :> v1) @@ (c2 :> v2)
Rec1(c1, v1) == (c1 :> v1)
Rec3(c1, v1, c2, v2, c3, v3) == (c1 :> v1) @@ (c2 :> v2) @@ (c3 :> v3)

(* pd.DataFrame(list of dicts).columns: the union of the records' keys *)
FrameColumns(data) == UNION {DOMAIN data[i] : i \in DOMAIN data}

-----------------------------------------------------------------------------
(* The tabular batch: pd.DataFrame(request.data).set_index(entity_id_column).
   A frame is [columns, index, rows]: the column names left after the entity
   column became the index, the index labels in row order, and the rows. *)

MakeFrame(data, entity_id_column) ==
    [columns |-> FrameColumns(data) \ {entity_id_column},
     index   |-> [i \in DOMAIN data |-> data[i][entity_id_column]],
     rows    |-> data]

(* request.entity_id_column not in df.columns: "Invalid raw data format" *)
FrameFails(data, entity_id_column) ==
    entity_id_column \notin FrameColumns(data)

(* The cells a column holds (rows lacking the key hold NaN, which is numeric) *)
ColumnCells(df, col) ==
    {df.rows[i][col] : i \in {j \in DOMAIN df.rows : col \in DOMAIN df.rows[j]}}

is_numeric_dtype(df, col) == \A v \in ColumnCells(df, col) : IsNum(v)

(* a column that is not numeric has dtype object *)
is_object_dtype(df, col) == ~is_numeric_dtype(df, col)
is_string_dtype(df, col) == is_object_dtype(df, col)

(* validate_raw_data_schema: the missing required columns *)
missing_columns(df, schema_definition) ==
    schema_definition.required_columns \ df.columns

(* validate_raw_data_schema: the columns whose dtype contradicts the schema *)
TypeViolations(df, schema_definition) ==
    {col \in DOMAIN schema_definition.column_types \cap df.columns :
        LET expected_type == schema_definition.column_types[col] IN
        \/ expected_type = "numeric" /\ ~is_numeric_dtype(df, col)
        \/ /\ expected_type = "string"
           /\ ~is_string_dtype(df, col)
           /\ ~is_object_dtype(df, col)}

(* validate_raw_data_schema raises ValueError *)
validate_raw_data_schema_raises(df, schema_definition) ==
    \/ missing_columns(df, schema_definition) # {}
    \/ TypeViolations(df, schema_definition) # {}

-----------------------------------------------------------------------------
(* The transformation logic is stored text run by exec().  The model knows
   these programs; Exec gives what running each one leaves behind:
   whether it raised, whether it bound `result`, the shape of `result`
   and, for a Series, its (index label, value) items in order. *)

LogicColumn   == "result = df['amount']"
LogicGroupSum == "result = df.groupby(level=0, sort=False)['amount'].sum()"
LogicFrame    == "result = df"
LogicDivZero  == "result = df['amount'] / (1 // 0)"
LogicNoResult == "out = df['amount']"
LogicScalar   == "result = len(df)"
LogicLabel    == "result = df['label']"
LogicMapping  == "result = df['amount'].apply(lambda v: {'a': 1})"
LogicIntKey   == "result = df['amount'].apply(lambda v: {1: 2})"
LogicList     == "result = df['amount'].apply(lambda v: [1, 2])"
LogicTuple    == "result = df['amount'].apply(lambda v: (1, 2))"

Item(e, v) == [entity |-> e, value |-> v]

ColumnSeries(df, col) ==
    [i \in DOMAIN df.rows |-> Item(df.index[i], df.rows[i][col])]

(* Series.apply of a function that returns the same value for every cell *)
ConstantSeries(df, value) == [i \in DOMAIN df.rows |-> Item(df.index[i], value)]

(* first positions of each index label, in row order *)
FirstPositions(df) ==
    {i \in DOMAIN df.index : \A j \in 1..(i - 1) : df.index[j] # df.index[i]}

RECURSIVE GroupSum(_, _, _)
GroupSum(df, col, i) ==
    IF i > Len(df.rows) THEN <<>>
    ELSE IF i \in FirstPositions(df)
         THEN <<Item(df.index[i],
                     Num(SeqSum([j \in DOMAIN df.rows |->
                            IF df.index[j] = df.index[i]
                            THEN df.rows[j][col].n ELSE 0])))>>
              \o GroupSum(df, col, i + 1)
         ELSE GroupSum(df, col, i + 1)

Raised == [raised |-> TRUE, bound |-> FALSE, shape |-> "none", series |-> <<>>, ncols |-> 0]
Bound(shape, series, ncols) ==
    [raised |-> FALSE, bound |-> TRUE, shape |-> shape, series |-> series, ncols |-> ncols]

Exec(computation_logic, df) ==
    CASE computation_logic = LogicColumn ->
            IF "amount" \in df.columns
            THEN Bound("Series", ColumnSeries(df, "amount"), 1)
            ELSE Raised                                   \* KeyError
      [] computation_logic = LogicGroupSum ->
            IF "amount" \in df.columns /\ is_numeric_dtype(df, "amount")
            THEN Bound("Series", GroupSum(df, "amount", 1), 1)
            ELSE Raised                                   \* KeyError / TypeError
      [] computation_logic = LogicFrame ->
            Bound("DataFrame",
                  IF Cardinality(df.columns) = 1
                  THEN ColumnSeries(df, CHOOSE c \in df.columns : TRUE)
                  ELSE <<>>,
                  Cardinality(df.columns))
      [] computation_logic = LogicDivZero -> Raised       \* ZeroDivisionError
      [] computation_logic = LogicNoResult ->
            [raised |-> FALSE, bound |-> FALSE, shape |-> "none", series |-> <<>>, ncols |-> 0]
      [] computation_logic = LogicScalar -> Bound("int", <<>>, 0)
      [] computation_logic = LogicLabel ->
            IF "label" \in df.columns
            THEN Bound("Series", ColumnSeries(df, "label"), 1)
            ELSE Raised                                   \* KeyError
      [] computation_logic \in {LogicMapping, LogicIntKey, LogicList, LogicTuple} ->
            IF "amount" \in df.columns
            THEN Bound("Series",
                       ConstantSeries(df,
                           CASE computation_logic = LogicMapping ->
                                    Dict(<<Pair(Str("a"), Num(1))>>)
                             [] computation_logic = LogicIntKey ->
                                    Dict(<<Pair(Num(1), Num(2))>>)
                             [] computation_logic = LogicList ->
                                    List(<<Num(1), Num(2)>>)
                             [] computation_logic = LogicTuple ->
                                    Tuple(<<Num(1), Num(2)>>)),
                       1)
            ELSE Raised                                   \* KeyError

(* compute_feature: [ok, series]; ok = FALSE is the ValueError
   "Error computing feature: ..." *)
compute_feature(raw_data, computation_logic) ==
    LET r == Exec(computation_logic, raw_data) IN
    IF r.raised THEN [ok |-> FALSE, series |-> <<>>]
    ELSE IF ~r.bound THEN [ok |-> FALSE, series |-> <<>>]
    ELSE IF r.shape = "Series" THEN [ok |-> TRUE, series |-> r.series]
    ELSE IF r.shape = "DataFrame"
         THEN IF r.ncols = 1 THEN [ok |-> TRUE, series |-> r.series]
              ELSE [ok |-> FALSE, series |-> <<>>]
    ELSE [ok |-> FALSE, series |-> <<>>]


-----------------------------------------------------------------------------
(* Rows of the four tables *)

RawTable(name, schema_definition) ==
    [name |-> name, schema_definition |-> schema_definition]
Feature(name, raw_table_id, computation_logic) ==
    [name |-> name, raw_table_id |-> raw_table_id,
     computation_logic |-> computation_logic]
FeatureVersion(feature_id, version, status, computed_at) ==
    [feature_id |-> feature_id, version |-> version, status |-> status,
     computed_at |-> computed_at]
FeatureValue(feature_version_id, entity_id, value) ==
    [feature_version_id |-> feature_version_id, entity_id |-> entity_id,
     value |-> value]

Status == {"active", "deprecated", "archived"}

(* str(x) of an index label or of a value that is neither dict nor list: the
   digits of a number, a string itself, "(1, 2)" for a tuple of numbers *)
str(v) ==
    CASE v.k = "num" -> ToString(v.n)
      [] v.k = "str" -> v.s
      [] v.k = "tuple" ->
            "(" \o join(", ", [i \in DOMAIN v.items |-> ToString(v.items[i].n)]) \o ")"

(* json.dumps(value): numbers as digits, strings quoted, lists and tuples as
   arrays, dicts as objects whose keys become strings *)
RECURSIVE json_dumps(_)
json_dumps(v) ==
    CASE v.k = "num" -> ToString(v.n)
      [] v.k = "str" -> "\"" \o v.s \o "\""
      [] v.k \in {"list", "tuple"} ->
            "[" \o join(", ", [i \in DOMAIN v.items |-> json_dumps(v.items[i])]) \o "]"
      [] v.k = "dict" ->
            "{" \o join(", ", [i \in DOMAIN v.items |->
                                 "\"" \o str(v.items[i].key) \o "\": "
                                     \o json_dumps(v.items[i].value)]) \o "}"

(* store_feature_values: json.dumps for a dict or a list, str for the rest *)
value_str(value) ==
    IF value.k \in {"dict", "list"} THEN json_dumps(value) ELSE str(value)

(* store_feature_values: the rows added for a series, in iteration order *)
ValueRows(feature_version_id, feature_values) ==
    [i \in DOMAIN feature_values |->
        FeatureValue(feature_version_id,
                     str(feature_values[i].entity),
                     value_str(feature_values[i].value))]

-----------------------------------------------------------------------------
(* Inputs of the requests *)

SchemaAmount ==
    [required_columns |-> {"amount"}, column_types |-> ("amount" :> "numeric")]
SchemaLabel ==
    [required_columns |-> {"id", "amount"}, column_types |-> ("amount" :> "string")]

DataTwoRows  == <<Rec2("id", Str("x"), "amount", Num(5)),
                  Rec2("id", Str("x"), "amount", Num(7))>>
DataNoAmount == <<Rec1("id", Str("x"))>>
DataText     == <<Rec2("id", Str("x"), "amount", Str("five"))>>
DataNoId     == <<Rec1("amount", Num(5))>>

DataLabel42   == <<Rec3("id", Str("x"), "amount", Num(5), "label", Str("42"))>>
DataLabelFive == <<Rec3("id", Str("x"), "amount", Num(5), "label", Str("five"))>>

TableNames   == {"orders", "events"}
Labels       == {"v2", "v3"}
DataChoices  == {DataTwoRows, DataNoAmount, DataText, DataNoId}
SchemaChoices == {SchemaLabel}

-----------------------------------------------------------------------------
(* Queries *)

FeatureIds == DOMAIN features
VersionIds == DOMAIN versions
ValueIds   == DOMAIN fvalues

(* db.query(FeatureVersion).filter(feature_id == f, version == label) *)
VersionsOf(feature_id, label) ==
    {i \in VersionIds : /\ versions[i].feature_id = feature_id
                        /\ versions[i].version = label}

-----------------------------------------------------------------------------
(* Initial state: a database that already holds one raw table, one feature and
   two versions of it, v1 older than v2, each in any status, each with a value
   for entity x. *)

NoReq == [op |-> "none"]

Seeded(statuses) ==
    /\ rawTables = <<RawTable("orders", SchemaAmount)>>
    /\ features = <<Feature("total", 1, LogicGroupSum)>>
    /\ \E s1 \in statuses, s2 \in statuses :
          versions = <<FeatureVersion(1, "v1", s1, 0),
                       FeatureVersion(1, "v2", s2, 1)>>
    /\ fvalues = <<FeatureValue(1, "x", "10"), FeatureValue(2, "x", "20")>>
    /\ dbClock = 2
    /\ pc = [p \in Workers |-> "idle"]
    /\ req = [p \in Workers |-> NoReq]
    /\ outcome = [p \in Workers |-> None]
    /\ response = [p \in Workers |-> <<>>]
    /\ cache = <<>>
    /\ now = 0
    /\ ticks = 0
    /\ tcache = [data |-> <<>>, currsize |-> 0, links |-> <<>>, obj |-> <<>>,
                 chain |-> <<>>, calls |-> 0]

Init == Seeded({"active"}) /\ probe = [stage |-> "off"]

-----------------------------------------------------------------------------
(* register_raw_table *)
register_raw_table(name, schema_definition) ==
    /\ ~\E i \in DOMAIN rawTables : rawTables[i].name = name
    /\ rawTables' = Append(rawTables, RawTable(name, schema_definition))
    /\ UNCHANGED <<features, versions, fvalues, dbClock, pc, req, outcome, response, cacheVars, probe, tcache>>

(* create_feature *)
create_feature(name, raw_table_id, computation_logic) ==
    /\ raw_table_id \in DOMAIN rawTables
    /\ Len(features) < MaxFeatures
    /\ features' = Append(features, Feature(name, raw_table_id, computation_logic))
    /\ UNCHANGED <<rawTables, versions, fvalues, dbClock, pc, req, outcome, response, cacheVars, probe, tcache>>

(* the database clock advances *)
DbTick ==
    /\ dbClock < MaxDbClock
    /\ dbClock' = dbClock + 1
    /\ UNCHANGED <<rawTables, features, versions, fvalues, pc, req, outcome, response, cacheVars, probe, tcache>>


-----------------------------------------------------------------------------
(* compute_feature_version, POST /features/{feature_id}/versions.
   request = [version, data, entity_id_column].  *)

ComputeRequest(version, data, entity_id_column) ==
    [version |-> version, data |-> data, entity_id_column |-> entity_id_column]

(* handlers that may still insert a version row *)
PendingCreates ==
    Cardinality({q \in Workers : pc[q] \in {"c_check", "c_transform", "c_create"}})

(* Transform with the logic run before the schema is validated *)
TransformComputeFirst(request, schema_definition, computation_logic) ==
    IF FrameFails(request.data, request.entity_id_column)
    THEN [error |-> "InvalidData", executed |-> FALSE, series |-> <<>>, missing |-> {}]
    ELSE LET df == MakeFrame(request.data, request.entity_id_column)
             r == compute_feature(df, computation_logic) IN
         IF ~r.ok
         THEN [error |-> "ComputationError", executed |-> TRUE, series |-> <<>>,
               missing |-> {}]
         ELSE IF validate_raw_data_schema_raises(df, schema_definition)
              THEN [error |-> "SchemaError", executed |-> TRUE, series |-> <<>>,
                    missing |-> missing_columns(df, schema_definition)]
              ELSE [error |-> None, executed |-> TRUE, series |-> r.series,
                    missing |-> {}]

(* lines 174-206: build the frame, validate it, run the logic.  Local to the
   handler.  executed tells whether exec() was reached, missing is the set the
   "Missing required columns" message lists (empty when the message is another). *)
Transform(request, schema_definition, computation_logic) ==
    IF FrameFails(request.data, request.entity_id_column)
    THEN [error |-> "InvalidData", executed |-> FALSE, series |-> <<>>, missing |-> {}]
    ELSE LET df == MakeFrame(request.data, request.entity_id_column) IN
         IF validate_raw_data_schema_raises(df, schema_definition)
         THEN [error |-> "SchemaError", executed |-> FALSE, series |-> <<>>,
               missing |-> missing_columns(df, schema_definition)]
         ELSE LET r == compute_feature(df, computation_logic) IN
              IF ~r.ok
              THEN [error |-> "ComputationError", executed |-> TRUE, series |-> <<>>,
                    missing |-> {}]
              ELSE [error |-> None, executed |-> TRUE, series |-> r.series,
                    missing |-> {}]

(* lines 155-161: the feature lookup; the handler starts here.  existed notes
   whether the store held the requested (feature_id, version) on arrival. *)
compute_start(p, feature_id, request) ==
    /\ pc[p] = "idle"
    /\ Len(versions) + PendingCreates < MaxVersions
    /\ req' = [req EXCEPT ![p] =
                 [op |-> "compute", feature_id |-> feature_id, request |-> request,
                  series |-> <<>>, version_id |-> 0, executed |-> FALSE,
                  missing |-> {},
                  existed |-> VersionsOf(feature_id, request.version) # {}]]
    /\ IF feature_id \in FeatureIds
       THEN pc' = [pc EXCEPT ![p] = "c_check"] /\ UNCHANGED outcome
       ELSE /\ pc' = [pc EXCEPT ![p] = "done"]
            /\ outcome' = [outcome EXCEPT ![p] = "NotFound"]
    /\ UNCHANGED <<db, response, cacheVars, probe, tcache>>

(* compute_check without the existing-version query *)
compute_check_skipped(p) ==
    /\ pc[p] = "c_check"
    /\ pc' = [pc EXCEPT ![p] = "c_transform"]
    /\ UNCHANGED <<db, req, outcome, response, cacheVars, probe, tcache>>

(* lines 163-172: the existing-version query *)
compute_check(p) ==
    /\ pc[p] = "c_check"
    /\ IF VersionsOf(req[p].feature_id, req[p].request.version) # {}
       THEN /\ pc' = [pc EXCEPT ![p] = "done"]
            /\ outcome' = [outcome EXCEPT ![p] = "Duplicate"]
       ELSE pc' = [pc EXCEPT ![p] = "c_transform"] /\ UNCHANGED outcome
    /\ UNCHANGED <<db, req, response, cacheVars, probe, tcache>>

(* compute_transform that records a failed run as a version row *)
compute_transform_recording(p) ==
    /\ pc[p] = "c_transform"
    /\ LET feature == features[req[p].feature_id]
           t == Transform(req[p].request,
                          rawTables[feature.raw_table_id].schema_definition,
                          feature.computation_logic) IN
       /\ req' = [req EXCEPT ![p].series = t.series, ![p].executed = t.executed,
                                 ![p].missing = t.missing]
       /\ IF t.error # None
          THEN /\ pc' = [pc EXCEPT ![p] = "done"]
               /\ outcome' = [outcome EXCEPT ![p] = t.error]
               /\ versions' = Append(versions,
                                     FeatureVersion(req[p].feature_id,
                                                    req[p].request.version,
                                                    "archived", dbClock))
          ELSE /\ pc' = [pc EXCEPT ![p] = "c_create"]
               /\ UNCHANGED <<outcome, versions>>
    /\ UNCHANGED <<rawTables, features, fvalues, dbClock, response, cacheVars, probe, tcache>>

(* lines 174-206 *)
compute_transform(p) ==
    /\ pc[p] = "c_transform"
    /\ LET feature == features[req[p].feature_id]
           t == Transform(req[p].request,
                          rawTables[feature.raw_table_id].schema_definition,
                          feature.computation_logic) IN
       /\ req' = [req EXCEPT ![p].series = t.series, ![p].executed = t.executed,
                                 ![p].missing = t.missing]
       /\ IF t.error # None
          THEN /\ pc' = [pc EXCEPT ![p] = "done"]
               /\ outcome' = [outcome EXCEPT ![p] = t.error]
          ELSE pc' = [pc EXCEPT ![p] = "c_create"] /\ UNCHANGED outcome
    /\ UNCHANGED <<db, response, cacheVars, probe, tcache>>

(* lines 208-217: db.add(db_version); db.commit(); db.refresh(db_version) *)
compute_create(p) ==
    /\ pc[p] = "c_create"
    /\ versions' = Append(versions,
                          FeatureVersion(req[p].feature_id, req[p].request.version,
                                         "active", dbClock))
    /\ req' = [req EXCEPT ![p].version_id = Len(versions) + 1]
    /\ pc' = [pc EXCEPT ![p] = "c_store"]
    /\ UNCHANGED <<rawTables, features, fvalues, dbClock, outcome, response, cacheVars, probe, tcache>>

(* compute_store that empties the cache when the values are committed *)
compute_store_invalidating(p, raises) ==
    /\ pc[p] = "c_store"
    /\ IF raises
       THEN /\ UNCHANGED <<fvalues, cache>>
            /\ outcome' = [outcome EXCEPT ![p] = "StorageError"]
       ELSE /\ fvalues' = fvalues \o ValueRows(req[p].version_id, req[p].series)
            /\ outcome' = [outcome EXCEPT ![p] = "Created"]
            /\ cache' = <<>>
    /\ pc' = [pc EXCEPT ![p] = "done"]
    /\ UNCHANGED <<rawTables, features, versions, dbClock, req, response, now, ticks, probe, tcache>>

(* compute_store whose rollback also removes the version row *)
compute_store_deleting(p, raises) ==
    /\ pc[p] = "c_store"
    /\ IF raises
       THEN /\ UNCHANGED fvalues
            /\ versions' = SubSeq(versions, 1, Len(versions) - 1)
            /\ outcome' = [outcome EXCEPT ![p] = "StorageError"]
       ELSE /\ fvalues' = fvalues \o ValueRows(req[p].version_id, req[p].series)
            /\ outcome' = [outcome EXCEPT ![p] = "Created"]
            /\ UNCHANGED versions
    /\ pc' = [pc EXCEPT ![p] = "done"]
    /\ UNCHANGED <<rawTables, features, dbClock, req, response, cacheVars, probe, tcache>>

(* compute_store that commits row by row, so that a failure leaves the rows
   written before it *)
compute_store_row_by_row(p, raises) ==
    /\ pc[p] = "c_store"
    /\ IF raises
       THEN /\ fvalues' = fvalues \o SubSeq(ValueRows(req[p].version_id, req[p].series),
                                            1, Len(req[p].series) - 1)
            /\ outcome' = [outcome EXCEPT ![p] = "StorageError"]
       ELSE /\ fvalues' = fvalues \o ValueRows(req[p].version_id, req[p].series)
            /\ outcome' = [outcome EXCEPT ![p] = "Created"]
    /\ pc' = [pc EXCEPT ![p] = "done"]
    /\ UNCHANGED <<rawTables, features, versions, dbClock, req, response, cacheVars, probe, tcache>>

(* lines 219-230: store_feature_values adds every row and commits once; when
   it raises, db.rollback() discards the rows not yet committed *)
compute_store(p, raises) ==
    /\ pc[p] = "c_store"
    /\ IF raises
       THEN /\ UNCHANGED fvalues
            /\ outcome' = [outcome EXCEPT ![p] = "StorageError"]
       ELSE /\ fvalues' = fvalues \o ValueRows(req[p].version_id, req[p].series)
            /\ outcome' = [outcome EXCEPT ![p] = "Created"]
    /\ pc' = [pc EXCEPT ![p] = "done"]
    /\ UNCHANGED <<rawTables, features, versions, dbClock, req, response, cacheVars, probe, tcache>>

(* list_feature_versions, GET /features/{feature_id}/versions: the rows of the
   feature's versions, or 404 *)
list_feature_versions(p, feature_id) ==
    /\ pc[p] = "idle"
    /\ req' = [req EXCEPT ![p] = [op |-> "list", feature_id |-> feature_id]]
    /\ IF feature_id \in FeatureIds
       THEN /\ outcome' = [outcome EXCEPT ![p] = "OK"]
            /\ response' = [response EXCEPT ![p] =
                               SelectSeq(versions, LAMBDA r : r.feature_id = feature_id)]
       ELSE /\ outcome' = [outcome EXCEPT ![p] = "NotFound"]
            /\ UNCHANGED response
    /\ pc' = [pc EXCEPT ![p] = "done"]
    /\ UNCHANGED <<db, cacheVars, probe, tcache>>

(* the response has been sent; the worker takes the next request *)
Return(p) ==
    /\ pc[p] = "done"
    /\ pc' = [pc EXCEPT ![p] = "idle"]
    /\ req' = [req EXCEPT ![p] = NoReq]
    /\ outcome' = [outcome EXCEPT ![p] = None]
    /\ response' = [response EXCEPT ![p] = <<>>]
    /\ UNCHANGED <<db, cacheVars, probe, tcache>>

-----------------------------------------------------------------------------
-----------------------------------------------------------------------------
(* FeatureCache: TTLCache(maxsize, ttl) behind _make_key, get and set *)

maxsize == 1000
ttl == 3600

(* the strings that occur as feature names, in Python's string order *)
StringOrder == <<"a", "b", "count", "total", "v1", "v2", "v3">>
Rank(x) == CHOOSE i \in DOMAIN StringOrder : StringOrder[i] = x

RECURSIVE Insert(_, _)
Insert(x, s) ==
    IF s = <<>> THEN <<x>>
    ELSE IF Rank(x) <= Rank(Head(s)) THEN <<x>> \o s
    ELSE <<Head(s)>> \o Insert(x, Tail(s))

(* sorted that leaves the list as it is *)
Unsorted(s) == s

(* sorted(feature_names) *)
RECURSIVE sorted(_)
sorted(s) == IF s = <<>> THEN <<>> ELSE Insert(Head(s), sorted(Tail(s)))

(* hashlib.md5(key_str.encode()).hexdigest(): the digest of a string, taken
   to be free of collisions *)
md5_hexdigest(key_str) == <<"md5", key_str>>

(* _make_key.  An absent list of names is the empty list and an absent version
   the empty string: the code only tests their truth value. *)
key_parts(entity_id, feature_names, version) ==
    <<entity_id>>
    \o (IF feature_names # <<>> THEN <<join(",", sorted(feature_names))>> ELSE <<>>)
    \o (IF version # "" THEN <<version>> ELSE <<>>)

make_key(entity_id, feature_names, version) ==
    md5_hexdigest(join("|", key_parts(entity_id, feature_names, version)))

(* Live without the expiry test *)
LiveForever(key) == key \in DOMAIN cache

(* TTLCache.__contains__: the key is held and timer() < expires *)
Live(key) == key \in DOMAIN cache /\ now < cache[key].expires

(* FeatureCache.get: the cached vector, or the empty mapping for None (both
   are false for the caller's `if cached`) *)
cache_get(entity_id, feature_names, version) ==
    LET key == make_key(entity_id, feature_names, version) IN
    IF Live(key) THEN cache[key].features ELSE <<>>

(* FeatureCache.set: TTLCache.__setitem__ drops the expired items, evicts an
   item while the cache is full, stores the value and sets its expiry.  The
   values the cache may hold afterwards. *)
cache_set(entity_id, feature_vector, feature_names, version, assembled) ==
    LET key == make_key(entity_id, feature_names, version)
        kept == {k \in DOMAIN cache : now < cache[k].expires}
        entry == [features |-> feature_vector, expires |-> now + ttl,
                  stored |-> now, assembled |-> assembled]
        put(keys) == [k \in keys \cup {key} |-> IF k = key THEN entry ELSE cache[k]]
    IN  IF key \notin kept /\ Cardinality(kept) >= maxsize
        THEN {put(kept \ {victim}) : victim \in kept}
        ELSE {put(kept)}

(* the cache timer advances by d seconds *)
Tick(d) ==
    /\ ticks < MaxTicks
    /\ ticks' = ticks + 1
    /\ now' = now + d
    /\ UNCHANGED <<db, pc, req, outcome, response, cache, probe, tcache>>

-----------------------------------------------------------------------------
(* json.loads of a stored text: the document whose JSON text it is, among
   the numbers and the small arrays and objects (string keys) over them;
   every other text of the model is not JSON and is kept as it is *)

Numbers == 0..30
JsonScalars == {Num(1), Num(2)}
JsonArrays == {List(<<>>)} \cup {List(<<a>>) : a \in JsonScalars}
                  \cup {List(<<a, b>>) : a \in JsonScalars, b \in JsonScalars}
JsonObjects ==
    {Dict(<<>>)} \cup {Dict(<<Pair(Str(key), v)>>) :
                          key \in {"a", "1"}, v \in JsonScalars \cup JsonArrays}
JsonDocuments == {Num(n) : n \in Numbers} \cup JsonArrays \cup JsonObjects
json_loads_ok(text) == \E v \in JsonDocuments : json_dumps(v) = text
json_loads(text) == CHOOSE v \in JsonDocuments : json_dumps(v) = text

(* lines 321-325 *)
ParseValue(text) == IF json_loads_ok(text) THEN json_loads(text) ELSE Str(text)

-----------------------------------------------------------------------------
(* get_feature_vector, POST /feature-vectors.
   request = [entity_id, feature_names, version]. *)

VectorRequest(entity_id, feature_names, version) ==
    [entity_id |-> entity_id, feature_names |-> feature_names, version |-> version]

Triple(value_id, version_id, feature_id) ==
    [value |-> value_id, version |-> version_id, feature |-> feature_id]

(* the members of a set of integers in ascending order *)
RECURSIVE Ascending(_)
Ascending(S) ==
    IF S = {} THEN <<>>
    ELSE LET m == CHOOSE x \in S : \A y \in S : x <= y IN
         <<m>> \o Ascending(S \ {m})

(* lines 286-291: the features the request names, or all of them *)
MatchingFeatures(feature_names) ==
    {f \in FeatureIds :
        feature_names # <<>> => features[f].name \in Range(feature_names)}

(* lines 270-282: the join for an explicit version *)
VersionQuery(request) ==
    {Triple(i, fvalues[i].feature_version_id,
            versions[fvalues[i].feature_version_id].feature_id) :
        i \in {j \in ValueIds :
                 /\ fvalues[j].entity_id = request.entity_id
                 /\ fvalues[j].feature_version_id \in VersionIds
                 /\ versions[fvalues[j].feature_version_id].version = request.version
                 /\ versions[fvalues[j].feature_version_id].feature_id
                        \in MatchingFeatures(request.feature_names)}}

(* LatestActive without the status filter *)
LatestAnyStatus(feature_id) ==
    LET own == {v \in VersionIds : versions[v].feature_id = feature_id} IN
    {v \in own : \A w \in own : versions[w].computed_at <= versions[v].computed_at}

(* LatestActive taking one latest version for all features *)
LatestActiveGlobal(feature_id) ==
    LET active == {v \in VersionIds : versions[v].status = "active"} IN
    {v \in active : \A w \in active : versions[w].computed_at <= versions[v].computed_at}

(* lines 297-300: the rows that .filter(feature_id, status == "active")
   .order_by(computed_at.desc()).first() may return: the active versions of
   the feature with the greatest computed_at (the order among equal
   timestamps is the database's) *)
LatestActive(feature_id) ==
    LET active == {v \in VersionIds : /\ versions[v].feature_id = feature_id
                                      /\ versions[v].status = "active"} IN
    {v \in active : \A w \in active : versions[w].computed_at <= versions[v].computed_at}

(* lines 304-307: the rows .filter(feature_version_id, entity_id).first() may
   return *)
ValueRowsFor(version_id, entity_id) ==
    {i \in ValueIds : /\ fvalues[i].feature_version_id = version_id
                      /\ fvalues[i].entity_id = entity_id}

(* lines 318-327: the dict built from the result rows.  A later row of the
   same feature name overwrites an earlier one and the order of the rows is
   the database's, so each name may end with any of its rows. *)
ResultNames(results) == {features[t.feature].name : t \in results}
FeatureVectors(results) ==
    LET names == ResultNames(results)
        rowsOf(n) == {t \in results : features[t.feature].name = n}
        picks == {pick \in [names -> results] : \A n \in names : pick[n] \in rowsOf(n)}
    IN  {[n \in names |-> ParseValue(fvalues[pick[n].value].value)] : pick \in picks}

(* lines 258-265: the cache lookup; the handler starts here *)
resolve_start(p, request) ==
    /\ pc[p] = "idle"
    /\ LET cached == cache_get(request.entity_id, request.feature_names, request.version)
           local == [op |-> "resolve", request |-> request, todo |-> <<>>,
                     latest_version |-> 0, results |-> {}, assembled |-> 0]
       IN IF cached # <<>>
          THEN /\ req' = [req EXCEPT ![p] = local]
               /\ pc' = [pc EXCEPT ![p] = "done"]
               /\ outcome' = [outcome EXCEPT ![p] = "OK"]
               /\ response' = [response EXCEPT ![p] = cached]
          ELSE /\ req' = [req EXCEPT ![p] = local]
               /\ pc' = [pc EXCEPT ![p] =
                           IF request.version # "" THEN "r_query" ELSE "r_features"]
               /\ UNCHANGED <<outcome, response>>
    /\ UNCHANGED <<db, cacheVars, probe, tcache>>

(* lines 268-282 *)
resolve_query(p) ==
    /\ pc[p] = "r_query"
    /\ req' = [req EXCEPT ![p].results = VersionQuery(req[p].request),
                          ![p].assembled = now]
    /\ pc' = [pc EXCEPT ![p] = "r_finish"]
    /\ UNCHANGED <<db, outcome, response, cacheVars, probe, tcache>>

(* lines 284-291 *)
resolve_features(p) ==
    /\ pc[p] = "r_features"
    /\ LET found == Ascending(MatchingFeatures(req[p].request.feature_names)) IN
       /\ req' = [req EXCEPT ![p].todo = found, ![p].assembled = now]
       /\ pc' = [pc EXCEPT ![p] = IF found = <<>> THEN "r_finish" ELSE "r_latest"]
    /\ UNCHANGED <<db, outcome, response, cacheVars, probe, tcache>>

(* lines 295-302: the latest-version query of the feature at hand *)
resolve_latest(p) ==
    /\ pc[p] = "r_latest"
    /\ LET candidates == LatestActive(Head(req[p].todo)) IN
       IF candidates = {}
       THEN /\ req' = [req EXCEPT ![p].todo = Tail(@), ![p].assembled = now]
            /\ pc' = [pc EXCEPT ![p] =
                        IF Tail(req[p].todo) = <<>> THEN "r_finish" ELSE "r_latest"]
       ELSE /\ \E v \in candidates :
                 req' = [req EXCEPT ![p].latest_version = v, ![p].assembled = now]
            /\ pc' = [pc EXCEPT ![p] = "r_value"]
    /\ UNCHANGED <<db, outcome, response, cacheVars, probe, tcache>>

(* resolve_value that fails the request when the feature has no value *)
resolve_value_failing(p) ==
    /\ pc[p] = "r_value"
    /\ LET rows == ValueRowsFor(req[p].latest_version, req[p].request.entity_id) IN
       IF rows = {}
       THEN /\ req' = [req EXCEPT ![p].todo = <<>>, ![p].results = {},
                                  ![p].assembled = now]
            /\ pc' = [pc EXCEPT ![p] = "r_finish"]
       ELSE /\ \E i \in rows :
                 req' = [req EXCEPT
                           ![p].results = @ \cup {Triple(i, req[p].latest_version,
                                                         Head(req[p].todo))},
                           ![p].todo = Tail(@), ![p].assembled = now]
            /\ pc' = [pc EXCEPT ![p] =
                        IF Tail(req[p].todo) = <<>> THEN "r_finish" ELSE "r_latest"]
    /\ UNCHANGED <<db, outcome, response, cacheVars, probe, tcache>>

(* lines 303-310: the value query under that version *)
resolve_value(p) ==
    /\ pc[p] = "r_value"
    /\ LET rows == ValueRowsFor(req[p].latest_version, req[p].request.entity_id) IN
       IF rows = {}
       THEN req' = [req EXCEPT ![p].todo = Tail(@), ![p].assembled = now]
       ELSE \E i \in rows :
               req' = [req EXCEPT
                         ![p].results = @ \cup {Triple(i, req[p].latest_version,
                                                       Head(req[p].todo))},
                         ![p].todo = Tail(@), ![p].assembled = now]
    /\ pc' = [pc EXCEPT ![p] =
                IF Tail(req[p].todo) = <<>> THEN "r_finish" ELSE "r_latest"]
    /\ UNCHANGED <<db, outcome, response, cacheVars, probe, tcache>>

(* resolve_finish that caches the empty vector of a lookup that found nothing *)
resolve_finish_caching_empty(p) ==
    /\ pc[p] = "r_finish"
    /\ IF req[p].results = {}
       THEN /\ outcome' = [outcome EXCEPT ![p] = "NotFound"]
            /\ cache' \in cache_set(req[p].request.entity_id, <<>>,
                                    req[p].request.feature_names,
                                    req[p].request.version, req[p].assembled)
            /\ UNCHANGED response
       ELSE \E feature_vector \in FeatureVectors(req[p].results) :
               /\ cache' \in cache_set(req[p].request.entity_id, feature_vector,
                                       req[p].request.feature_names,
                                       req[p].request.version, req[p].assembled)
               /\ response' = [response EXCEPT ![p] = feature_vector]
               /\ outcome' = [outcome EXCEPT ![p] = "OK"]
    /\ pc' = [pc EXCEPT ![p] = "done"]
    /\ UNCHANGED <<db, req, now, ticks, probe, tcache>>

(* resolve_finish without the 404 of an empty result list: the vector is
   built, cached and returned whatever was found *)
resolve_finish_unchecked(p) ==
    /\ pc[p] = "r_finish"
    /\ LET found == IF req[p].results = {} THEN {<<>>}
                    ELSE FeatureVectors(req[p].results) IN
       \E feature_vector \in found :
           /\ cache' \in cache_set(req[p].request.entity_id, feature_vector,
                                   req[p].request.feature_names,
                                   req[p].request.version, req[p].assembled)
           /\ response' = [response EXCEPT ![p] = feature_vector]
           /\ outcome' = [outcome EXCEPT ![p] = "OK"]
    /\ pc' = [pc EXCEPT ![p] = "done"]
    /\ UNCHANGED <<db, req, now, ticks, probe, tcache>>

(* lines 312-336: 404 when nothing was found, else build the vector, cache it
   and return it *)
resolve_finish(p) ==
    /\ pc[p] = "r_finish"
    /\ IF req[p].results = {}
       THEN /\ outcome' = [outcome EXCEPT ![p] = "NotFound"]
            /\ UNCHANGED <<response, cache>>
       ELSE \E feature_vector \in FeatureVectors(req[p].results) :
               /\ cache' \in cache_set(req[p].request.entity_id, feature_vector,
                                       req[p].request.feature_names,
                                       req[p].request.version, req[p].assembled)
               /\ response' = [response EXCEPT ![p] = feature_vector]
               /\ outcome' = [outcome EXCEPT ![p] = "OK"]
    /\ pc' = [pc EXCEPT ![p] = "done"]
    /\ UNCHANGED <<db, req, now, ticks, probe, tcache>>

-----------------------------------------------------------------------------
(* FeatureCache.set under one request shape followed by FeatureCache.get under
   another: probe = [stage, a, b, got] *)

ProbeVector == ("f" :> Num(1))

probe_set ==
    /\ probe.stage = "ready"
    /\ cache' \in cache_set(probe.a.entity_id, ProbeVector, probe.a.feature_names,
                            probe.a.version, now)
    /\ probe' = [probe EXCEPT !.stage = "set"]
    /\ UNCHANGED <<db, handlers, now, ticks, tcache>>

probe_get ==
    /\ probe.stage = "set"
    /\ probe' = [probe EXCEPT !.stage = "got",
                              !.got = cache_get(probe.b.entity_id,
                                                probe.b.feature_names,
                                                probe.b.version)]
    /\ UNCHANGED <<db, handlers, cacheVars, tcache>>

-----------------------------------------------------------------------------
(* FeatureCache.set and FeatureCache.get as the interpreter runs them.  The
   cache has no lock, so a thread may be suspended wherever TTLCache calls a
   Python function; each action below is one stretch between two such calls.
   tcache holds the TTLCache's fields: data is Cache.__data, currsize is
   Cache.__currsize, links is TTLCache.__links (key -> link), obj the link
   objects (key, expires) by identity, chain the linked list from root.next
   on, calls the number of calls begun. *)

Link(key, expires) == [key |-> key, expires |-> expires]
Without(f, k) == [x \in DOMAIN f \ {k} |-> f[x]]
With(f, k, v) == [x \in DOMAIN f \cup {k} |-> IF x = k THEN v ELSE f[x]]
Unlinked(chain, id) == SelectSeq(chain, LAMBDA x : x # id)

(* TTLCache.expire(time): from the head of the list, while the link has
   expired, Cache.__getitem__ and Cache.__delitem__ of its key, del
   links[key], unlink.  A key that data or links no longer holds raises
   KeyError and leaves the work done so far. *)
RECURSIVE expire(_, _)
expire(tc, time) ==
    IF tc.chain = <<>> THEN [tc |-> tc, raised |-> FALSE]
    ELSE IF time < tc.obj[Head(tc.chain)].expires THEN [tc |-> tc, raised |-> FALSE]
    ELSE LET key == tc.obj[Head(tc.chain)].key IN
         IF key \notin DOMAIN tc.data \/ key \notin DOMAIN tc.links
         THEN [tc |-> tc, raised |-> TRUE]
         ELSE expire([tc EXCEPT !.data = Without(@, key),
                                !.currsize = @ - 1,
                                !.links = Without(@, key),
                                !.chain = Tail(@)], time)

(* FeatureCache.set: the key is made, TTLCache.__setitem__ is entered and
   `with self.timer as time` fixes the time of the call *)
set_enter(p, request, feature_vector) ==
    /\ pc[p] = "idle"
    /\ tcache.calls < MaxCalls
    /\ req' = [req EXCEPT ![p] =
                 [op |-> "set",
                  key |-> make_key(request.entity_id, request.feature_names,
                                   request.version),
                  value |-> feature_vector, time |-> now, link |-> 0]]
    /\ pc' = [pc EXCEPT ![p] = "s_expire"]
    /\ tcache' = [tcache EXCEPT !.calls = @ + 1]
    /\ UNCHANGED <<db, outcome, response, cacheVars, probe>>

(* self.expire(time) *)
set_expire(p) ==
    /\ pc[p] = "s_expire"
    /\ LET r == expire(tcache, req[p].time) IN
       /\ tcache' = r.tc
       /\ IF r.raised
          THEN /\ pc' = [pc EXCEPT ![p] = "done"]
               /\ outcome' = [outcome EXCEPT ![p] = "KeyError"]
          ELSE pc' = [pc EXCEPT ![p] = "s_setitem"] /\ UNCHANGED outcome
    /\ UNCHANGED <<db, req, response, cacheVars, probe>>

(* cache_setitem(self, key, value): Cache.__setitem__ stores the value and
   adds its size, 1, to currsize when the key is new (maxsize is never
   reached here, so nothing is evicted) *)
set_setitem(p) ==
    /\ pc[p] = "s_setitem"
    /\ tcache' = [tcache EXCEPT
                    !.data = With(@, req[p].key, req[p].value),
                    !.currsize = IF req[p].key \in DOMAIN tcache.data THEN @ ELSE @ + 1]
    /\ pc' = [pc EXCEPT ![p] = "s_getlink"]
    /\ UNCHANGED <<db, req, outcome, response, cacheVars, probe>>

(* link = self.__getlink(key), or KeyError: no link yet (link = 0) *)
set_getlink(p) ==
    /\ pc[p] = "s_getlink"
    /\ req' = [req EXCEPT ![p].link =
                 IF req[p].key \in DOMAIN tcache.links
                 THEN tcache.links[req[p].key] ELSE 0]
    /\ pc' = [pc EXCEPT ![p] = "s_link"]
    /\ UNCHANGED <<db, outcome, response, cacheVars, probe, tcache>>

(* without a link: self.__links[key] = link = TTLCache._Link(key); with one:
   link.unlink().  Then link.expires = time + ttl and the link goes to the
   end of the list. *)
set_link(p) ==
    /\ pc[p] = "s_link"
    /\ LET key == req[p].key
           expires == req[p].time + ttl
           id == req[p].link IN
       IF id = 0
       THEN tcache' = [tcache EXCEPT
                         !.obj = Append(@, Link(key, expires)),
                         !.links = With(@, key, Len(tcache.obj) + 1),
                         !.chain = Append(@, Len(tcache.obj) + 1)]
       ELSE tcache' = [tcache EXCEPT
                         !.obj[id].expires = expires,
                         !.chain = Append(Unlinked(@, id), id)]
    /\ pc' = [pc EXCEPT ![p] = "done"]
    /\ outcome' = [outcome EXCEPT ![p] = "Stored"]
    /\ UNCHANGED <<db, req, response, cacheVars, probe>>

(* FeatureCache.get: Cache.get tests `key in self` (TTLCache.__contains__:
   the link exists and has not expired) and returns None when it fails *)
get_contains(p, request) ==
    /\ pc[p] = "idle"
    /\ tcache.calls < MaxCalls
    /\ LET key == make_key(request.entity_id, request.feature_names, request.version) IN
       /\ req' = [req EXCEPT ![p] = [op |-> "get", key |-> key]]
       /\ IF key \in DOMAIN tcache.links /\ now < tcache.obj[tcache.links[key]].expires
          THEN pc' = [pc EXCEPT ![p] = "g_getitem"] /\ UNCHANGED outcome
          ELSE /\ pc' = [pc EXCEPT ![p] = "done"]
               /\ outcome' = [outcome EXCEPT ![p] = "Miss"]
    /\ tcache' = [tcache EXCEPT !.calls = @ + 1]
    /\ UNCHANGED <<db, response, cacheVars, probe>>

(* Cache.get then returns self[key]: TTLCache.__getitem__ raises KeyError for
   an expired link and for a key that data does not hold *)
get_getitem(p) ==
    /\ pc[p] = "g_getitem"
    /\ LET key == req[p].key
           expired == /\ key \in DOMAIN tcache.links
                      /\ ~(now < tcache.obj[tcache.links[key]].expires) IN
       IF expired \/ key \notin DOMAIN tcache.data
       THEN /\ outcome' = [outcome EXCEPT ![p] = "KeyError"]
            /\ UNCHANGED response
       ELSE /\ outcome' = [outcome EXCEPT ![p] = "Hit"]
            /\ response' = [response EXCEPT ![p] = tcache.data[key]]
    /\ pc' = [pc EXCEPT ![p] = "done"]
    /\ UNCHANGED <<db, req, cacheVars, probe, tcache>>

-----------------------------------------------------------------------------
(* The store side: raw tables are registered, features defined and versions
   computed by two concurrent handlers. *)
StoreWorkers == {1, 2}
ComputeRequests == {ComputeRequest(v, d, "id") : v \in Labels, d \in DataChoices}

Next ==
    \/ \E n \in TableNames, sd \in SchemaChoices : register_raw_table(n, sd)
    \/ \E t \in 1..2 : create_feature("count", t, LogicDivZero)
    \/ \E p \in StoreWorkers, f \in 1..MaxFeatures, r \in ComputeRequests :
          compute_start(p, f, r)
    \/ \E p \in StoreWorkers : compute_check(p)
    \/ \E p \in StoreWorkers : compute_transform(p)
    \/ \E p \in StoreWorkers : compute_create(p)
    \/ \E p \in StoreWorkers, raises \in BOOLEAN : compute_store(p, raises)
    \/ \E p \in StoreWorkers : Return(p)

Spec == Init /\ [][Next]_vars

(* The serving side: one handler looks vectors up while another computes new
   versions and the database clock advances.  The database starts with
   versions in any status. *)
SeedStatus == {"active", "deprecated"}
InitServe == Seeded(SeedStatus) /\ probe = [stage |-> "off"]

LatestRequest == VectorRequest("x", <<>>, "")
ServeRequests == {LatestRequest, VectorRequest("x", <<"total">>, "v3")}
NewVersionRequest == ComputeRequest("v3", DataTwoRows, "id")

NextServe ==
    \/ create_feature("count", 1, LogicColumn)
    \/ DbTick
    \/ \E f \in 1..MaxFeatures : compute_start(2, f, NewVersionRequest)
    \/ compute_check(2)
    \/ compute_transform(2)
    \/ compute_create(2)
    \/ \E raises \in BOOLEAN : compute_store(2, raises)
    \/ \E r \in ServeRequests : resolve_start(1, r)
    \/ resolve_query(1)
    \/ resolve_features(1)
    \/ resolve_latest(1)
    \/ resolve_value(1)
    \/ resolve_finish(1)
    \/ \E p \in {1, 2} : Return(p)

SpecServe == InitServe /\ [][NextServe]_vars

(* The cache over time: two handlers look the same vector up while a third
   computes a new version and the cache timer advances. *)
NextCache ==
    \/ \E d \in {1, ttl - 1} : Tick(d)
    \/ compute_start(3, 1, NewVersionRequest)
    \/ compute_check(3)
    \/ compute_transform(3)
    \/ compute_create(3)
    \/ \E raises \in BOOLEAN : compute_store(3, raises)
    \/ \E p \in {1, 2} : resolve_start(p, LatestRequest)
    \/ \E p \in {1, 2} : resolve_features(p)
    \/ \E p \in {1, 2} : resolve_latest(p)
    \/ \E p \in {1, 2} : resolve_value(p)
    \/ \E p \in {1, 2} : resolve_finish(p)
    \/ \E p \in Workers : Return(p)

SpecCache == Init /\ [][NextCache]_vars

(* The whole service: tables are registered and features defined while one
   handler computes versions, one looks vectors up and one lists versions. *)
NextService ==
    \/ \E n \in TableNames, sd \in SchemaChoices : register_raw_table(n, sd)
    \/ create_feature("count", 1, LogicColumn)
    \/ \E f \in 1..MaxFeatures : compute_start(2, f, NewVersionRequest)
    \/ compute_check(2)
    \/ compute_transform(2)
    \/ compute_create(2)
    \/ \E raises \in BOOLEAN : compute_store(2, raises)
    \/ \E r \in ServeRequests : resolve_start(1, r)
    \/ resolve_query(1)
    \/ resolve_features(1)
    \/ resolve_latest(1)
    \/ resolve_value(1)
    \/ resolve_finish(1)
    \/ \E f \in 1..MaxFeatures : list_feature_versions(3, f)
    \/ \E p \in Workers : Return(p)

SpecService == Init /\ [][NextService]_vars

(* Store, then resolve: a feature is defined with one of the programs, one
   handler computes its version v3 from a one-record batch and stays at its
   response, another looks the entity's value of that version up. *)
RoundLogics == {LogicColumn, LogicLabel, LogicMapping, LogicIntKey, LogicList, LogicTuple}
RoundRequests == {ComputeRequest("v3", d, "id") : d \in {DataLabel42, DataLabelFive}}
RoundLookup == VectorRequest("x", <<"count">>, "v3")

NextRound ==
    \/ \E l \in RoundLogics : create_feature("count", 1, l)
    \/ \E r \in RoundRequests : compute_start(2, 2, r)
    \/ compute_check(2)
    \/ compute_transform(2)
    \/ compute_create(2)
    \/ \E raises \in BOOLEAN : compute_store(2, raises)
    \/ resolve_start(1, RoundLookup)
    \/ resolve_query(1)
    \/ resolve_finish(1)
    \/ Return(1)

SpecRound == Init /\ [][NextRound]_vars

(* Features defined under names that may repeat: features are defined while
   one handler computes version v3 of them and another looks vectors up. *)
FeatureNames == {"total", "count"}

NextNames ==
    \/ \E n \in FeatureNames : create_feature(n, 1, LogicColumn)
    \/ \E f \in 1..MaxFeatures : compute_start(2, f, NewVersionRequest)
    \/ compute_check(2)
    \/ compute_transform(2)
    \/ compute_create(2)
    \/ \E raises \in BOOLEAN : compute_store(2, raises)
    \/ \E r \in ServeRequests : resolve_start(1, r)
    \/ resolve_query(1)
    \/ resolve_features(1)
    \/ resolve_latest(1)
    \/ resolve_value(1)
    \/ resolve_finish(1)
    \/ \E p \in {1, 2} : Return(p)

SpecNames == Init /\ [][NextNames]_vars

(* The cache under two threads: calls of set and get for two request shapes
   interleave while the timer advances. *)
CacheThreads == {1, 2}
ThreadShapes == {VectorRequest("x", <<>>, ""), VectorRequest("y", <<>>, "")}

NextThreads ==
    \/ \E p \in CacheThreads, r \in ThreadShapes : set_enter(p, r, ProbeVector)
    \/ \E p \in CacheThreads : set_expire(p)
    \/ \E p \in CacheThreads : set_setitem(p)
    \/ \E p \in CacheThreads : set_getlink(p)
    \/ \E p \in CacheThreads : set_link(p)
    \/ \E p \in CacheThreads, r \in ThreadShapes : get_contains(p, r)
    \/ \E p \in CacheThreads : get_getitem(p)
    \/ Tick(ttl)
    \/ \E p \in CacheThreads : Return(p)

SpecThreads == Init /\ [][NextThreads]_vars

(* The cache key: every pair of request shapes over a small alphabet is set
   under the first and read under the second. *)
ProbeNames == {"a", "b", "v1"}
NameLists == UNION {[1..n -> ProbeNames] : n \in 0..MaxNames}
ProbeShapes == {VectorRequest("x", names, v) : names \in NameLists, v \in {"", "v1"}}

InitKey ==
    /\ Seeded({"active"})
    /\ \E a \in ProbeShapes, b \in ProbeShapes :
          probe = [stage |-> "ready", a |-> a, b |-> b, got |-> <<>>]

NextKey == probe_set \/ probe_get

SpecKey == InitKey /\ [][NextKey]_vars

-----------------------------------------------------------------------------
(* Properties of computeVersion, checked under Spec *)

IsCompute(p) == req[p].op = "compute"
Finished(p, result) == pc[p] = "done" /\ outcome[p] = result

(* the frame and schema of worker p's computeVersion request *)
SubmittedFrame(p) == MakeFrame(req[p].request.data, req[p].request.entity_id_column)
SchemaOf(p) == rawTables[features[req[p].feature_id].raw_table_id].schema_definition
LogicOf(p) == features[req[p].feature_id].computation_logic
ViolatesSchema(p) ==
    /\ ~FrameFails(req[p].request.data, req[p].request.entity_id_column)
    /\ validate_raw_data_schema_raises(SubmittedFrame(p), SchemaOf(p))

(* C1, as claimed: once a computeVersion request has failed with a storage
   error, the version row it created is gone from feature_versions. *)
C1_VersionRolledBack ==
    \A p \in Workers :
        (IsCompute(p) /\ Finished(p, "StorageError"))
            => req[p].version_id \notin VersionIds

(* C2, as claimed: feature_versions never holds two rows with the same
   (feature_id, version). *)
C2_OneVersionPerLabel ==
    \A i \in VersionIds, j \in VersionIds :
        (/\ versions[i].feature_id = versions[j].feature_id
         /\ versions[i].version = versions[j].version) => i = j

(* C3: every step of a computeVersion handler whose (feature_id, version) was
   in the store when it arrived leaves feature_versions and feature_values
   unchanged, and the handler ends with the duplicate error, whatever records
   it submitted. *)
C3_DuplicateRejected ==
    [][\A p \in Workers :
          (IsCompute(p) /\ req[p].existed /\ pc'[p] # pc[p])
              => /\ versions' = versions
                 /\ fvalues' = fvalues
                 /\ pc'[p] \in {"done", "idle"}
                 /\ pc'[p] = "done" => outcome'[p] = "Duplicate"]_vars

(* C3 witness: a duplicate submission with a batch that violates the schema
   has been rejected as a duplicate *)
C3_Witness ==
    \E p \in Workers :
        /\ IsCompute(p) /\ Finished(p, "Duplicate") /\ req[p].existed
        /\ ViolatesSchema(p)

(* C9: the step in which a computeVersion handler fails with a schema error or
   a computation error changes no row of feature_versions or feature_values,
   and the handler has not created its version row before it. *)
C9_FailureWritesNothing ==
    [][\A p \in Workers :
          (outcome[p] = None /\ outcome'[p] \in {"SchemaError", "ComputationError"})
              => /\ versions' = versions
                 /\ fvalues' = fvalues
                 /\ req'[p].version_id = 0]_vars

(* C9 witness: one handler has failed with a schema error and another with a
   computation error *)
C9_Witness ==
    \E p \in Workers, q \in Workers :
        /\ IsCompute(p) /\ Finished(p, "SchemaError")
        /\ IsCompute(q) /\ Finished(q, "ComputationError")

(* C10: a computeVersion handler that got past the duplicate check with a
   batch that violates the schema ends with the schema error and never ran the
   logic; and whenever the logic has run, the batch had passed validation. *)
C10_ValidationBeforeLogic ==
    \A p \in Workers :
        IsCompute(p) =>
            /\ (pc[p] = "done" /\ outcome[p] \notin {"NotFound", "Duplicate"}
                  /\ ViolatesSchema(p))
                 => (outcome[p] = "SchemaError" /\ ~req[p].executed)
            /\ req[p].executed => ~ViolatesSchema(p)

(* C10 witness: a schema error was reported for a batch on which the logic
   itself would have raised *)
C10_Witness ==
    \E p \in Workers :
        /\ IsCompute(p) /\ Finished(p, "SchemaError")
        /\ Exec(LogicOf(p), SubmittedFrame(p)).raised

-----------------------------------------------------------------------------
(* Properties of the lookup without an explicit version, checked under
   SpecServe *)

IsResolve(p) == req[p].op = "resolve"
StepOf(p) == pc'[p] # pc[p] \/ req'[p] # req[p]
ActiveVersions(f) ==
    {v \in VersionIds : versions[v].feature_id = f /\ versions[v].status = "active"}
NewerThan(v) ==
    {w \in VersionIds : /\ versions[w].feature_id = versions[v].feature_id
                        /\ versions[w].computed_at > versions[v].computed_at}
NameOf(t) == features[t.feature].name

(* C4: the latest-version query of a feature yields one of its active
   versions, with a computed_at no smaller than that of any other active
   version of the feature, whatever the status of newer versions; a feature
   without active version adds no row to the results.  The value query adds
   the row of a value stored under that version for the requested entity, and
   every value of the returned vector is the decoded value of such a row. *)
C4_LatestActiveChosen ==
    [][\A p \in Workers :
          /\ (pc[p] = "r_latest" /\ StepOf(p)) =>
                LET f == Head(req[p].todo) IN
                IF ActiveVersions(f) = {}
                THEN /\ req'[p].results = req[p].results
                     /\ req'[p].todo = Tail(req[p].todo)
                     /\ pc'[p] # "r_value"
                ELSE /\ pc'[p] = "r_value"
                     /\ req'[p].latest_version \in ActiveVersions(f)
                     /\ \A w \in ActiveVersions(f) :
                           versions[w].computed_at
                              <= versions[req'[p].latest_version].computed_at
          /\ (pc[p] = "r_value" /\ StepOf(p)) =>
                \A t \in req'[p].results \ req[p].results :
                    /\ t.feature = Head(req[p].todo)
                    /\ t.version = req[p].latest_version
                    /\ fvalues[t.value].feature_version_id = t.version
                    /\ fvalues[t.value].entity_id = req[p].request.entity_id
          /\ (pc[p] = "r_finish" /\ StepOf(p) /\ req[p].request.version = ""
                /\ outcome'[p] = "OK") =>
                \A n \in DOMAIN response'[p] :
                    \E t \in req[p].results :
                        /\ NameOf(t) = n
                        /\ response'[p][n] = ParseValue(fvalues[t.value].value)]_vars

(* C4 witness: a lookup has returned the value of an older active version
   while a newer version of the feature is not active *)
C4_Witness ==
    \E p \in Workers :
        /\ IsResolve(p) /\ Finished(p, "OK") /\ req[p].request.version = ""
        /\ \E t \in req[p].results :
              /\ \E w \in NewerThan(t.version) : versions[w].status # "active"
              /\ response[p][NameOf(t)] = ParseValue(fvalues[t.value].value)

(* C5: in the answer of a lookup without explicit version that missed the
   cache, every feature's row is a value stored for the entity under an active
   version of that same feature, one row per feature, and a feature whose name
   no other row carries has exactly that value in the vector, whatever the
   version labels of the other rows. *)
C5_PerFeatureResolution ==
    \A p \in Workers :
        (IsResolve(p) /\ Finished(p, "OK") /\ req[p].request.version = ""
           /\ req[p].results # {}) =>
            /\ \A t \in req[p].results :
                  /\ versions[t.version].feature_id = t.feature
                  /\ versions[t.version].status = "active"
                  /\ fvalues[t.value].feature_version_id = t.version
                  /\ fvalues[t.value].entity_id = req[p].request.entity_id
                  /\ (\A u \in req[p].results : NameOf(u) = NameOf(t) => u = t)
                        => response[p][NameOf(t)] = ParseValue(fvalues[t.value].value)
            /\ \A t \in req[p].results, u \in req[p].results :
                  t.feature = u.feature => t = u
            /\ DOMAIN response[p] = ResultNames(req[p].results)

(* C5 witness: one answer holds the values of two features taken from versions
   with different labels *)
C5_Witness ==
    \E p \in Workers :
        /\ IsResolve(p) /\ Finished(p, "OK") /\ req[p].request.version = ""
        /\ \E t \in req[p].results, u \in req[p].results :
              /\ NameOf(t) # NameOf(u)
              /\ versions[t.version].version # versions[u.version].version
              /\ response[p][NameOf(t)] = ParseValue(fvalues[t.value].value)
              /\ response[p][NameOf(u)] = ParseValue(fvalues[u.value].value)

-----------------------------------------------------------------------------
(* Properties of the cache over time, checked under SpecCache *)

KeyOf(p) == make_key(req[p].request.entity_id, req[p].request.feature_names,
                     req[p].request.version)
(* worker p answers from the cache in this step *)
HitStep(p) == pc[p] = "idle" /\ pc'[p] = "done" /\ req'[p].op = "resolve"
HitKey(p) == make_key(req'[p].request.entity_id, req'[p].request.feature_names,
                      req'[p].request.version)
(* worker p takes a step of computeVersion *)
ComputeStep(p) == pc'[p] # pc[p] /\ (IsCompute(p) \/ req'[p].op = "compute")
(* the entry under k stays in the cache, unexpired, over this step *)
Stays(k) == k \in DOMAIN cache /\ k \in DOMAIN cache' /\ now' < cache[k].expires

(* C6, as claimed: while an entry stays in the cache unexpired its vector does
   not change, so every later lookup of the shape returns the vector first put
   there. *)
C6_EntryKeepsVector ==
    [][\A k \in DOMAIN cache : Stays(k) => cache'[k].features = cache[k].features]_vars

(* C6, amended: a lookup that finds an unexpired entry returns the vector the
   entry holds and leaves the cache as it is; no step of computeVersion changes
   the cache; and the vector of an entry that stays unexpired changes only in
   the step in which a lookup that had missed the cache stores its own result
   under the same key. *)
C6_CacheOnlySetByMisses ==
    [][/\ \A p \in Workers :
             /\ HitStep(p) => /\ Live(HitKey(p))
                              /\ response'[p] = cache[HitKey(p)].features
                              /\ cache' = cache
             /\ ComputeStep(p) => cache' = cache
       /\ \A k \in DOMAIN cache :
             (Stays(k) /\ cache'[k].features # cache[k].features)
                => \E p \in Workers : /\ pc[p] = "r_finish" /\ pc'[p] = "done"
                                      /\ KeyOf(p) = k]_vars

(* C6 witness: a lookup was answered from the cache with the value of v2 after
   a newer version v3 of the feature had been committed with its values *)
C6_Witness ==
    \E p \in Workers :
        /\ IsResolve(p) /\ Finished(p, "OK") /\ req[p].results = {}
        /\ response[p]["total"] = ParseValue("20")
        /\ \E v \in ActiveVersions(1) :
              /\ versions[v].version = "v3"
              /\ ValueRowsFor(v, "x") # {}

(* C7, as claimed: a vector answered from the cache was read from the store at
   most ttl before the answer. *)
C7_ReadWithinTtl ==
    [][\A p \in Workers :
          HitStep(p) => now - cache[HitKey(p)].assembled <= ttl]_vars

(* C7, amended: an entry is answered from the cache only while less than ttl
   has passed since it was stored there; an entry that is ttl old or older is
   treated as absent although the cache still holds it. *)
C7_StoredWithinTtl ==
    [][\A p \in Workers :
          /\ HitStep(p) => now - cache[HitKey(p)].stored < ttl
          /\ (pc[p] = "idle" /\ req'[p].op = "resolve"
                /\ HitKey(p) \in DOMAIN cache
                /\ now - cache[HitKey(p)].stored >= ttl) => pc'[p] # "done"]_vars

(* C7 witness: a lookup went to the store although the cache still held an
   entry under its key, because the entry was ttl old *)
C7_Witness ==
    \E p \in Workers :
        /\ IsResolve(p) /\ pc[p] = "r_features"
        /\ KeyOf(p) \in DOMAIN cache
        /\ now - cache[KeyOf(p)].stored >= ttl

-----------------------------------------------------------------------------
(* Properties of the cache key, checked under SpecKey *)

Count(x, s) == Cardinality({i \in DOMAIN s : s[i] = x})
IsPermutation(s, t) ==
    Len(s) = Len(t) /\ \A x \in Range(s) \cup Range(t) : Count(x, s) = Count(x, t)
ReorderedProbe ==
    /\ probe.stage # "off"
    /\ probe.a.entity_id = probe.b.entity_id
    /\ probe.a.version = probe.b.version
    /\ IsPermutation(probe.a.feature_names, probe.b.feature_names)
ProbeKey(r) == make_key(r.entity_id, r.feature_names, r.version)

(* C8: two request shapes that differ only in the order of the feature names
   have the same key, and a vector set under one is returned by a get under
   the other. *)
C8_KeyIgnoresOrder ==
    ReorderedProbe =>
        /\ ProbeKey(probe.a) = ProbeKey(probe.b)
        /\ probe.stage = "got" => probe.got = ProbeVector

(* C8 witness: a get under a reordered list of names has returned the vector *)
C8_Witness ==
    /\ ReorderedProbe
    /\ probe.a.feature_names # probe.b.feature_names
    /\ probe.stage = "got"
    /\ probe.got = ProbeVector

-----------------------------------------------------------------------------
(* Properties of schema validation, checked under Spec *)

(* worker p's computeVersion handler has run validate_raw_data_schema *)
Validated(p) ==
    /\ IsCompute(p)
    /\ \/ pc[p] \in {"c_create", "c_store"}
       \/ /\ pc[p] = "done"
          /\ outcome[p] \in {"SchemaError", "ComputationError", "Created", "StorageError"}
(* the required columns that the submitted records do not have *)
AbsentFromBatch(p) ==
    SchemaOf(p).required_columns \ FrameColumns(req[p].request.data)

(* C11, as claimed: the required-column check passes exactly when every
   required column is a column of the submitted records, the entity id column
   counted among them; otherwise the request is rejected and the reported
   missing set is the required columns minus the columns of the records. *)
C11_RequiredColumnsOfBatch ==
    \A p \in Workers :
        Validated(p) =>
            IF AbsentFromBatch(p) = {}
            THEN req[p].missing = {}
            ELSE outcome[p] = "SchemaError" /\ req[p].missing = AbsentFromBatch(p)

-----------------------------------------------------------------------------
(* Properties of a lookup that missed the cache, checked under SpecServe *)

EntityOf(p) == req[p].request.entity_id
Moves(p) == pc'[p] # pc[p]

(* C12: a lookup that missed the cache ends with NotFound exactly when its
   queries gave no row: the join of an explicit version found no value of the
   entity for a requested feature, or no requested feature had a value of the
   entity under its latest active version.  The step that ends with NotFound
   leaves the cache as it is and returns no vector. *)
C12_NotFoundIffNothingResolved ==
    [][\A p \in Workers :
          /\ (pc[p] = "r_finish" /\ Moves(p)) =>
                /\ outcome'[p] = (IF req[p].results = {} THEN "NotFound" ELSE "OK")
                /\ outcome'[p] = "NotFound" =>
                      (cache' = cache /\ response'[p] = response[p])
          /\ (pc[p] = "r_query" /\ Moves(p)) =>
                req'[p].results = VersionQuery(req[p].request)
          /\ (pc[p] = "r_features" /\ Moves(p)) =>
                /\ req'[p].results = {}
                /\ Range(req'[p].todo) = MatchingFeatures(req[p].request.feature_names)
          /\ (pc[p] = "r_latest" /\ Moves(p)) => req'[p].results = req[p].results
          /\ (pc[p] = "r_value" /\ Moves(p)) =>
                (req'[p].results # req[p].results
                    <=> ValueRowsFor(req[p].latest_version, EntityOf(p)) # {})]_vars

(* C12 witness: a lookup has ended with NotFound while the cache held the
   vector of another request shape *)
C12_Witness ==
    \E p \in Workers :
        /\ IsResolve(p) /\ Finished(p, "NotFound") /\ req[p].results = {}
        /\ cache # <<>>
        /\ KeyOf(p) \notin DOMAIN cache

(* the requested features that have a latest active version but no value of
   the entity under it *)
Valueless(p) ==
    {f \in MatchingFeatures(req[p].request.feature_names) :
        /\ LatestActive(f) # {}
        /\ \A v \in LatestActive(f) : ValueRowsFor(v, EntityOf(p)) = {}}

(* C13: in a lookup without explicit version, the value query of a feature
   that finds no value of the entity under the latest active version adds
   nothing to the results, raises nothing and goes on with the next feature;
   the lookup ends with OK as soon as the results hold one row, and its vector
   has exactly the names of the features that gave a row. *)
C13_ValuelessFeatureOmitted ==
    [][\A p \in Workers :
          /\ (/\ pc[p] = "r_value" /\ Moves(p)
              /\ ValueRowsFor(req[p].latest_version, EntityOf(p)) = {}) =>
                /\ req'[p].results = req[p].results
                /\ req'[p].todo = Tail(req[p].todo)
                /\ pc'[p] = (IF Tail(req[p].todo) = <<>> THEN "r_finish" ELSE "r_latest")
                /\ outcome'[p] = None
          /\ (/\ pc[p] = "r_finish" /\ Moves(p) /\ req[p].request.version = ""
              /\ req[p].results # {}) =>
                /\ outcome'[p] = "OK"
                /\ DOMAIN response'[p] = ResultNames(req[p].results)]_vars

(* C13 witness: a lookup has returned a vector with the value of one feature
   and without the name of another requested feature, one that has had an
   active version since before the lookup began and whose latest active
   version has no value of the entity *)
C13_Witness ==
    \E p \in Workers :
        /\ IsResolve(p) /\ Finished(p, "OK") /\ req[p].request.version = ""
        /\ req[p].results # {}
        /\ \E f \in Valueless(p) :
              /\ \E v \in ActiveVersions(f) : versions[v].computed_at < 2
              /\ features[f].name \notin DOMAIN response[p]
              /\ \A t \in req[p].results : t.feature # f

-----------------------------------------------------------------------------
(* Properties of the stored rows *)

(* C14, as claimed: feature_values never holds two rows with the same
   (feature_version_id, entity_id), also when the computed series repeats an
   index label. *)
C14_OneValuePerEntity ==
    \A i \in ValueIds, j \in ValueIds :
        (/\ fvalues[i].feature_version_id = fvalues[j].feature_version_id
         /\ fvalues[i].entity_id = fvalues[j].entity_id) => i = j

IsPrefix(s, t) == Len(s) <= Len(t) /\ \A i \in DOMAIN s : t[i] = s[i]

(* C15: every step of the service leaves each existing row of feature_versions
   and of feature_values as it is, under the same id: the tables only grow at
   the end. *)
C15_AppendOnly ==
    [][IsPrefix(versions, versions') /\ IsPrefix(fvalues, fvalues')]_vars

(* C15 witness: versions have been computed and stored, one request has ended
   with a storage error after its rollback, and lookups and listings have been
   answered, with the first rows still in place *)
C15_Witness ==
    /\ Len(versions) > 3 /\ Len(fvalues) > 2
    /\ \E p \in Workers : IsCompute(p) /\ Finished(p, "StorageError")
    /\ \E p \in Workers : IsResolve(p) /\ Finished(p, "OK")
    /\ \E p \in Workers : req[p].op = "list" /\ Finished(p, "OK")
    /\ versions[1] = FeatureVersion(1, "v1", "active", 0)
    /\ fvalues[1] = FeatureValue(1, "x", "10")

(* the rows of feature_values under version v, in table order *)
ValuesUnder(table, v) == SelectSeq(table, LAMBDA r : r.feature_version_id = v)

(* C16: the step that stores the values of a version either adds one row for
   every item of the computed series and reports success, or adds no row and
   reports the storage error; before it the version has no row, and no other
   step adds rows. *)
C16_ValuesAllOrNothing ==
    [][/\ \A p \in Workers :
             (pc[p] = "c_store" /\ Moves(p)) =>
                /\ ValuesUnder(fvalues, req[p].version_id) = <<>>
                /\ \/ /\ outcome'[p] = "Created"
                      /\ ValuesUnder(fvalues', req[p].version_id)
                            = ValueRows(req[p].version_id, req[p].series)
                   \/ /\ outcome'[p] = "StorageError"
                      /\ ValuesUnder(fvalues', req[p].version_id) = <<>>
       /\ fvalues' # fvalues => \E p \in Workers : pc[p] = "c_store" /\ Moves(p)]_vars

(* C16 witness: storing a series of two items has failed and the version has
   no row *)
C16_Witness ==
    \E p \in Workers :
        /\ IsCompute(p) /\ Finished(p, "StorageError")
        /\ Len(req[p].series) >= 2
        /\ ValuesUnder(fvalues, req[p].version_id) = <<>>

-----------------------------------------------------------------------------
(* Properties of the cache under concurrent calls, checked under SpecThreads *)

Quiescent == \A p \in Workers : pc[p] \in {"idle", "done"}

(* what every sequential order of set and get calls leaves: one link per key
   held, the link that links names, in the list once; currsize the number of
   keys *)
WellFormed(tc) ==
    /\ DOMAIN tc.links = DOMAIN tc.data
    /\ tc.currsize = Cardinality(DOMAIN tc.data)
    /\ Len(tc.chain) = Cardinality(DOMAIN tc.data)
    /\ \A i \in DOMAIN tc.chain :
          /\ tc.obj[tc.chain[i]].key \in DOMAIN tc.links
          /\ tc.links[tc.obj[tc.chain[i]].key] = tc.chain[i]

(* C17, as claimed: whenever no call of get or set is under way the cache is
   in a state that calls run one after the other leave, and no set has failed
   inside the cache. *)
C17_CacheAsIfSequential ==
    /\ Quiescent => WellFormed(tcache)
    /\ \A p \in Workers : req[p].op = "set" => outcome[p] # "KeyError"

-----------------------------------------------------------------------------
(* Properties of the store-then-resolve round trip, checked under SpecRound *)

Composite(v) == v.k \in {"dict", "list", "tuple"}

(* a structured value as a JSON response can carry it: a sequence is an
   array whether it was a list or a tuple, a mapping's keys are strings *)
RECURSIVE Structured(_)
Structured(v) ==
    CASE v.k \in {"num", "str"} -> v
      [] v.k \in {"list", "tuple"} ->
            List([i \in DOMAIN v.items |-> Structured(v.items[i])])
      [] v.k = "dict" ->
            Dict([i \in DOMAIN v.items |->
                    Pair(Str(str(v.items[i].key)), Structured(v.items[i].value))])

(* what the round trip is claimed to give back for a computed value *)
RoundTrip(v) ==
    IF Composite(v) THEN Structured(v)
    ELSE IF json_loads_ok(str(v)) THEN json_loads(str(v))
    ELSE Str(str(v))

(* worker p has answered an uncached lookup of the version worker q stored *)
ResolvedStored(p, q) ==
    /\ req[p].op = "resolve" /\ Finished(p, "OK") /\ req[p].results # {}
    /\ IsCompute(q) /\ Finished(q, "Created")
    /\ req[p].request.version = req[q].request.version
    /\ features[req[q].feature_id].name \in DOMAIN response[p]

(* C18, as claimed: an uncached resolve of a stored version returns, for the
   entity, the computed value itself when it is a mapping or a sequence
   (as a structure, not as its string form), the JSON-decoded form of the
   value's text when the value is a scalar whose text is valid JSON, and the
   text verbatim otherwise. *)
C18_RoundTrip ==
    \A p \in Workers, q \in Workers :
        ResolvedStored(p, q) =>
            \A i \in DOMAIN req[q].series :
                str(req[q].series[i].entity) = req[p].request.entity_id
                    => response[p][features[req[q].feature_id].name]
                           = RoundTrip(req[q].series[i].value)

-----------------------------------------------------------------------------
(* Properties of a lookup that runs while a version is computed, checked
   under SpecCache *)

HasValue(v, e) == ValueRowsFor(v, e) # {}

(* version v belongs to a handler that has committed the version row and is
   about to store a series holding entity e *)
BeingStored(v, e) ==
    \E q \in Workers :
        /\ IsCompute(q) /\ pc[q] = "c_store" /\ req[q].version_id = v
        /\ \E i \in DOMAIN req[q].series : str(req[q].series[i].entity) = e

(* the values the active versions of feature f hold for entity e *)
ActiveValues(f, e) ==
    {ParseValue(fvalues[i].value) :
        i \in UNION {ValueRowsFor(v, e) : v \in ActiveVersions(f)}}

(* C19, as claimed: a finished resolve without a version label, for an entity
   that has a value under every active version of feature F except one whose
   series (holding the entity) a computeVersion is just storing, has answered
   with a vector that holds F, with a value of one of F's versions: it
   neither omitted F nor failed with NotFound. *)
C19_NeverOmitsWhileStoring ==
    \A p \in Workers, f \in FeatureIds :
        (/\ req[p].op = "resolve" /\ pc[p] = "done"
         /\ req[p].request.version = ""
         /\ f \in MatchingFeatures(req[p].request.feature_names)
         /\ ActiveVersions(f) # {}
         /\ \A v \in ActiveVersions(f) :
               \/ HasValue(v, req[p].request.entity_id)
               \/ BeingStored(v, req[p].request.entity_id))
            => /\ outcome[p] = "OK"
               /\ features[f].name \in DOMAIN response[p]
               /\ response[p][features[f].name]
                      \in ActiveValues(f, req[p].request.entity_id)

-----------------------------------------------------------------------------
(* Properties of the cache key across request shapes, checked under SpecKey *)

(* two requests of the same shape: same entity, same set of feature names
   (no names: all features), same version (no version: latest) *)
SameShape(a, b) ==
    /\ a.entity_id = b.entity_id
    /\ Range(a.feature_names) = Range(b.feature_names)
    /\ a.version = b.version

(* C20, as claimed: a get returns a vector only if it was set under the same
   request shape; requests that differ in entity, in the set of feature names
   or in version never share an entry. *)
C20_HitOnlySameShape ==
    (probe.stage = "got" /\ probe.got # <<>>) => SameShape(probe.a, probe.b)

-----------------------------------------------------------------------------
(* Properties of the vectors the cache holds, checked under SpecCache *)

(* worker p's lookup arrives while the cache holds an unexpired entry for
   its request *)
ArrivesAtEntry(p) ==
    /\ pc[p] = "idle" /\ req'[p].op = "resolve"
    /\ Live(ProbeKey(req'[p].request))

(* C21: after every step each vector the cache holds is a non-empty mapping,
   and a lookup that arrives while the cache holds an unexpired entry for its
   request is answered from that entry: the truthiness test of the cached
   vector never takes a present entry for a miss. *)
C21_CachedVectorsNonEmpty ==
    [][/\ \A k \in DOMAIN cache' : DOMAIN cache'[k].features # {}
       /\ \A p \in Workers :
             ArrivesAtEntry(p) =>
                 /\ pc'[p] = "done" /\ outcome'[p] = "OK"
                 /\ response'[p] = cache[ProbeKey(req'[p].request)].features]_vars

(* C21 witness: a lookup has been answered from the cache (it made no query)
   after another lookup had ended with NotFound and cached nothing *)
C21_Witness ==
    /\ cache # <<>>
    /\ \E p \in Workers :
          /\ req[p].op = "resolve" /\ Finished(p, "OK") /\ req[p].results = {}
          /\ response[p] # <<>>
    /\ \E q \in Workers : req[q].op = "resolve" /\ Finished(q, "NotFound")

-----------------------------------------------------------------------------
(* Properties of the vector's entries, checked under SpecNames *)

(* the features for which worker p's lookup found a value of the entity *)
ResolvedFeatures(p) == {t.feature : t \in req[p].results}

(* C22, as claimed: a lookup that missed the cache and answered OK returns a
   vector with as many entries as there are requested features for which it
   found a value of the entity, each feature contributing its own entry, also
   when several features were defined under one name. *)
C22_OneEntryPerFeature ==
    \A p \in Workers :
        (req[p].op = "resolve" /\ Finished(p, "OK") /\ req[p].results # {})
            => Cardinality(DOMAIN response[p]) = Cardinality(ResolvedFeatures(p))

====
